---------------------------- MODULE Spec2Model ----------------------------
(***************************************************************************)
(* A model of c-name-style.py: the Processor that checks the names of the  *)
(* declarations of a C translation unit against an ordered rule set.       *)
(*                                                                         *)
(* Strings are sequences of one-character strings.  A regular expression   *)
(* is a sequence of elements matched left to right with Python's           *)
(* backtracking priorities; a template is such a sequence that may also    *)
(* hold ${...} placeholders.  Python's None is the empty tuple and a       *)
(* present optional value x is the one-element tuple <<x>>.                *)
(***************************************************************************)
EXTENDS Integers, Sequences, FiniteSets, TLC

(***************************************************************************)
(* Characters                                                              *)
(***************************************************************************)
Lower == {"a","b","c","d","e","f","g","h","i","j","k","l","m",
          "n","o","p","q","r","s","t","u","v","w","x","y","z"}

Upper == {"A","B","C","D","E","F","G","H","I","J","K","L","M",
          "N","O","P","Q","R","S","T","U","V","W","X","Y","Z"}

Digit == {"0","1","2","3","4","5","6","7","8","9"}

Word == Lower \cup Upper \cup Digit \cup {"_"}

AnyChar == Word \cup {" ", "*", "{", "}", ";"}

\* str.upper() on one character
ToUpper(c) ==
  CASE c = "a" -> "A" [] c = "b" -> "B" [] c = "c" -> "C" [] c = "d" -> "D"
    [] c = "e" -> "E" [] c = "f" -> "F" [] c = "g" -> "G" [] c = "h" -> "H"
    [] c = "i" -> "I" [] c = "j" -> "J" [] c = "k" -> "K" [] c = "l" -> "L"
    [] c = "m" -> "M" [] c = "n" -> "N" [] c = "o" -> "O" [] c = "p" -> "P"
    [] c = "q" -> "Q" [] c = "r" -> "R" [] c = "s" -> "S" [] c = "t" -> "T"
    [] c = "u" -> "U" [] c = "v" -> "V" [] c = "w" -> "W" [] c = "x" -> "X"
    [] c = "y" -> "Y" [] c = "z" -> "Z" [] OTHER -> c

(***************************************************************************)
(* Optional values                                                         *)
(***************************************************************************)
None == <<>>

Some(x) == <<x>>

IsNone(o) == o = <<>>

Val(o) == o[1]

(***************************************************************************)
(* Regular expressions and templates                                       *)
(***************************************************************************)
\* one character of the set S: a literal is a one-character set
Cls(S) == [t |-> "set", s |-> S, r |-> <<>>, name |-> ""]

Chr(c) == Cls({c})

\* [S]* , greedy
Star(S) == [t |-> "star", s |-> S, r |-> <<>>, name |-> ""]

\* (r)? , greedy
Opt(r) == [t |-> "opt", s |-> {}, r |-> r, name |-> ""]

\* (?P<name>r)
Grp(r) == [t |-> "grp", s |-> {}, r |-> r, name |-> "name"]

\* $
Eol == [t |-> "eol", s |-> {}, r |-> <<>>, name |-> ""]

\* ${n} in a template; left in place by safe_substitute when n is unknown
Ph(n) == [t |-> "ph", s |-> {}, r |-> <<>>, name |-> n]

\* the text str, every character standing for itself (also re.escape(str))
Lit(str) == [i \in 1..Len(str) |-> Chr(str[i])]

\* the number of leading characters of s, from position i on, that are in S
RECURSIVE Run(_, _, _)
Run(S, s, i) ==
  IF i <= Len(s) /\ s[i] \in S THEN 1 + Run(S, s, i + 1) ELSE 0

\* The ways re matches s from position i, in the order Python's backtracking
\* tries them: each is the position after the match and the span of the group
\* called name (None when the group took no part).
RECURSIVE Ends(_, _, _, _), EndsAfter(_, _, _, _, _), EndsStar(_, _, _, _, _)
Ends(re, s, i, g) ==
  IF re = <<>> THEN << [e |-> i, g |-> g] >>
  ELSE LET x == Head(re)
           rest == Tail(re)
       IN CASE x.t = "set" ->
                 IF i <= Len(s) /\ s[i] \in x.s
                 THEN Ends(rest, s, i + 1, g) ELSE <<>>
            [] x.t = "star" -> EndsStar(rest, s, i, Run(x.s, s, i), g)
            [] x.t = "opt" ->
                 EndsAfter(Ends(x.r, s, i, g), rest, s, None, FALSE)
                   \o Ends(rest, s, i, g)
            [] x.t = "grp" ->
                 EndsAfter(Ends(x.r, s, i, g), rest, s, Some(i), TRUE)
            [] x.t = "eol" ->
                 IF i = Len(s) + 1 THEN Ends(rest, s, i, g) ELSE <<>>
            \* an unexpanded ${n}: '$' then the text '{n}', which no name has
            [] OTHER -> <<>>

\* rest matched after each of the matches ms of a group starting at from
EndsAfter(ms, rest, s, from, capture) ==
  IF ms = <<>> THEN <<>>
  ELSE LET m == Head(ms)
           g == IF capture THEN Some(<<Val(from), m.e>>) ELSE m.g
       IN Ends(rest, s, m.e, g) \o EndsAfter(Tail(ms), rest, s, from, capture)

\* rest matched after n, n-1, ..., 0 repetitions
EndsStar(rest, s, i, n, g) ==
  Ends(rest, s, i + n, g)
    \o (IF n = 0 THEN <<>> ELSE EndsStar(rest, s, i, n - 1, g))

\* the matches of ms that end at the end of s
EndingAt(ms, e) == SelectSeq(ms, LAMBDA m : m.e = e)

\* re.fullmatch(re, s): None, or the match
FullMatch(re, s) ==
  LET ms == EndingAt(Ends(re, s, 1, None), Len(s) + 1)
  IN IF ms = <<>> THEN None ELSE Some(Head(ms))

\* re.search("^" + re, s): None, or match.end() as the position after the match
SearchPrefix(re, s) ==
  LET ms == Ends(re, s, 1, None)
  IN IF ms = <<>> THEN None ELSE Some(Head(ms).e)

\* re.search(re + "$", s): None, or match.start() as a position; the search
\* tries the start positions from the left
RECURSIVE SearchSuffixFrom(_, _, _)
SearchSuffixFrom(re, s, i) ==
  IF i > Len(s) + 1 THEN None
  ELSE IF Ends(re \o <<Eol>>, s, i, None) # <<>> THEN Some(i)
  ELSE SearchSuffixFrom(re, s, i + 1)

SearchSuffix(re, s) == SearchSuffixFrom(re, s, 1)

\* Template.safe_substitute: every ${n} that table knows is replaced
RECURSIVE Substitute(_, _)
Substitute(template, table) ==
  IF template = <<>> THEN <<>>
  ELSE LET x == Head(template)
       IN (IF x.t = "ph" /\ x.name \in DOMAIN table
           THEN table[x.name] ELSE <<x>>)
            \o Substitute(Tail(template), table)


\* Processor._sub_placeholders: the placeholders section first, then the
\* variables of the declaration
_sub_placeholders(template, section, placeholders) ==
  LET result == IF DOMAIN section # {} THEN Substitute(template, section)
                ELSE template
  IN Substitute(result, placeholders)

\* the concatenation of a sequence of sequences ("".join)
RECURSIVE Join(_)
Join(parts) == IF parts = <<>> THEN <<>> ELSE Head(parts) \o Join(Tail(parts))

(***************************************************************************)
(* Rules.  Rule has the fields of the dataclass: kinds, visibility (lists   *)
(* of strings), types (a list of regular expressions), parent_match (a      *)
(* regular expression) and prefix, suffix, rule, allow_rule (templates)     *)
(* are optional; pointer is None, a bool or an int.                         *)
(***************************************************************************)
PointerNone == [t |-> "none", b |-> FALSE, n |-> 0]

PointerBool(b) == [t |-> "bool", b |-> b, n |-> 0]

PointerInt(n) == [t |-> "int", b |-> FALSE, n |-> n]

_KIND_EXPANSION ==
  [tag |-> <<"struct_tag", "enum_tag", "union_tag">>,
   typedef |-> <<"struct_typedef", "enum_typedef", "union_typedef",
                 "function_typedef", "scalar_typedef">>,
   member |-> <<"struct_member", "union_member">>]

\* list.remove(x): the list without the first x
RECURSIVE ListRemove(_, _)
ListRemove(list, x) ==
  IF list = <<>> THEN <<>>
  ELSE IF Head(list) = x THEN Tail(list)
  ELSE <<Head(list)>> \o ListRemove(Tail(list), x)

\* The loop of _rule_applies over rule_kinds, which extends and shrinks the
\* list it iterates: Python's list iterator is an index into the list, so the
\* element that follows a removed alias moves into the index just visited and
\* is not visited.
RECURSIVE ExpandKindsFrom(_, _)
ExpandKindsFrom(rule_kinds, i) ==
  IF i > Len(rule_kinds) THEN rule_kinds
  ELSE LET rule_kind == rule_kinds[i]
       IN IF rule_kind \in DOMAIN _KIND_EXPANSION
          THEN ExpandKindsFrom(
                 ListRemove(rule_kinds \o _KIND_EXPANSION[rule_kind], rule_kind),
                 i + 1)
          ELSE ExpandKindsFrom(rule_kinds, i + 1)

\* rule.kinds after one call of _rule_applies (the list is changed in place)
KindsAfterMatch(kinds) ==
  IF IsNone(kinds) THEN None ELSE Some(ExpandKindsFrom(Val(kinds), 1))

InSeq(x, list) == \E i \in 1..Len(list) : list[i] = x

\* rule.pointer == pointer_level, where Python's True == 1 and False == 0
PointerEquals(pointer, pointer_level) ==
  CASE pointer.t = "int" -> pointer.n = pointer_level
    [] pointer.t = "bool" -> (IF pointer.b THEN 1 ELSE 0) = pointer_level
    [] OTHER -> FALSE

\* A pointer test that accepts every declaration: C8 does not hold of it.
PointerApplies_Always(pointer, pointer_level) == TRUE

\* the pointer test of _rule_applies; pointer_level is optional
PointerApplies(pointer, pointer_level) ==
  ~ ( ~IsNone(pointer_level)
      /\ pointer.t # "none"
      /\ ~ ( (pointer.t = "bool" /\ pointer.b = (Val(pointer_level) > 0))
             \/ PointerEquals(pointer, Val(pointer_level)) ) )

(***************************************************************************)
(* Cursors.  A cursor is a record of what the Processor reads from clang:   *)
(* kind, spelling, line, main (the location is in the main file), header    *)
(* (the file's suffix is .h or .hpp), stem (the file's stem), linkage,      *)
(* extern_storage, inlined, tokens, type and underlying (the canonical      *)
(* underlying type of a typedef), parent (the semantic parent) and          *)
(* children.  A type is ptr levels of pointer to a type of kind kind        *)
(* spelled spelling.                                                        *)
(***************************************************************************)
Stars(n) == [i \in 1..n |-> "*"]

\* Type.spelling
TypeSpelling(type) ==
  IF type.ptr = 0 THEN type.spelling
  ELSE type.spelling \o <<" ">> \o Stars(type.ptr)

\* Type.kind
TypeKind(type) == IF type.ptr > 0 THEN "POINTER" ELSE type.kind

\* Type.get_pointee()
Pointee(type) == [type EXCEPT !.ptr = @ - 1]

\* while type.kind == TypeKind.POINTER: type = type.get_pointee()
RECURSIVE Unwrap(_)
Unwrap(type) == IF TypeKind(type) = "POINTER" THEN Unwrap(Pointee(type)) ELSE type

\* the number of iterations of that loop
RECURSIVE PointerDepth(_)
PointerDepth(type) ==
  IF TypeKind(type) = "POINTER" THEN 1 + PointerDepth(Pointee(type)) ELSE 0

\* str.startswith
StartsWith(s, p) == Len(s) >= Len(p) /\ SubSeq(s, 1, Len(p)) = p

\* list.index(x, lo, hi) with positions from 1 and hi exclusive: 0 stands for
\* ValueError
RECURSIVE Index(_, _, _, _)
Index(list, x, lo, hi) ==
  IF lo >= hi \/ lo > Len(list) THEN 0
  ELSE IF list[lo] = x THEN lo
  ELSE Index(list, x, lo + 1, hi)

KwStruct == <<"s","t","r","u","c","t">>

KwEnum == <<"e","n","u","m">>

KwUnion == <<"u","n","i","o","n">>

UnionSpace == KwUnion \o <<" ">>

_is_struct_enum_union_unnamed(cursor) ==
  LET t == CASE cursor.kind = "ENUM_DECL" -> KwEnum
             [] cursor.kind = "STRUCT_DECL" -> KwStruct
             [] OTHER -> KwUnion
      tokens == cursor.tokens
      type_pos == Index(tokens, t, 1, Len(tokens) + 1)
      open_brace_pos ==
        IF type_pos = 0 THEN 0 ELSE Index(tokens, <<"{">>, type_pos, Len(tokens) + 1)
  IN IF type_pos = 0 \/ open_brace_pos = 0 THEN FALSE
     ELSE Index(tokens, cursor.spelling, type_pos, open_brace_pos) = 0

\* (kind, visibility), each optional
Kind(k, v) == [kind |-> Some(k), visibility |-> v]

NoKind == [kind |-> None, visibility |-> None]

_get_config_kind(cursor) ==
  LET is_header == cursor.header
      global_or_file == IF is_header THEN Some("global") ELSE Some("file")
  IN CASE cursor.kind = "PARM_DECL" -> Kind("parameter", None)
       [] cursor.kind = "VAR_DECL" ->
            IF is_header THEN Kind("variable", Some("global"))
            ELSE IF cursor.linkage = "INTERNAL" THEN Kind("variable", Some("file"))
            ELSE IF cursor.linkage = "NO_LINKAGE" THEN Kind("variable", Some("local"))
            ELSE IF cursor.linkage = "EXTERNAL"
                 THEN IF cursor.extern_storage THEN NoKind
                      ELSE Kind("variable", Some("global"))
            ELSE NoKind
       [] cursor.kind = "FUNCTION_DECL" ->
            IF cursor.linkage = "EXTERNAL" \/ (cursor.inlined /\ is_header)
            THEN Kind("function", Some("global"))
            ELSE IF cursor.linkage = "INTERNAL" THEN Kind("function", Some("file"))
            ELSE NoKind
       [] cursor.kind = "STRUCT_DECL" ->
            IF _is_struct_enum_union_unnamed(cursor) THEN NoKind
            ELSE Kind("struct_tag", global_or_file)
       [] cursor.kind = "UNION_DECL" ->
            IF _is_struct_enum_union_unnamed(cursor) THEN NoKind
            ELSE Kind("union_tag", global_or_file)
       [] cursor.kind = "ENUM_DECL" ->
            IF _is_struct_enum_union_unnamed(cursor) THEN NoKind
            ELSE Kind("enum_tag", global_or_file)
       [] cursor.kind = "TYPEDEF_DECL" ->
            LET underlying_type == Unwrap(cursor.underlying)
            IN IF underlying_type.kind = "RECORD"
               THEN IF StartsWith(underlying_type.spelling, UnionSpace)
                    THEN Kind("union_typedef", global_or_file)
                    ELSE Kind("struct_typedef", global_or_file)
               ELSE IF underlying_type.kind = "ENUM"
                    THEN Kind("enum_typedef", global_or_file)
               ELSE IF underlying_type.kind = "FUNCTIONPROTO"
                    THEN Kind("function_typedef", global_or_file)
               ELSE Kind("scalar_typedef", global_or_file)
       [] cursor.kind = "FIELD_DECL" ->
            IF StartsWith(cursor.parent.type_spelling, UnionSpace)
            THEN Kind("union_member", global_or_file)
            ELSE Kind("struct_member", None)
       [] cursor.kind = "ENUM_CONSTANT_DECL" -> Kind("enum_constant", global_or_file)
       [] OTHER -> NoKind

\* the pointer level _process_node computes
PointerLevel(cursor) ==
  IF cursor.kind \in {"VAR_DECL", "PARM_DECL", "TYPEDEF_DECL", "FIELD_DECL"}
  THEN Some(PointerDepth(IF cursor.kind = "TYPEDEF_DECL"
                         THEN cursor.underlying ELSE cursor.type))
  ELSE None

\* Processor._rule_applies, for rule as the loop over its kinds has left it
_rule_applies(cursor, rule, config_kind, visibility, pointer_level) ==
  /\ IsNone(rule.kinds) \/ InSeq(config_kind, Val(rule.kinds))
  /\ PointerApplies(rule.pointer, pointer_level)
  /\ \/ IsNone(rule.types)
     \/ \E i \in 1..Len(Val(rule.types)) :
          ~IsNone(FullMatch(Val(rule.types)[i], TypeSpelling(cursor.type)))
  /\ ~ ( ~IsNone(visibility) /\ ~IsNone(rule.visibility)
         /\ ~InSeq(Val(visibility), Val(rule.visibility)) )
  /\ ~ ( ~IsNone(rule.parent_match)
         /\ cursor.kind = "ENUM_CONSTANT_DECL"
         /\ cursor.parent.anonymous )

(***************************************************************************)
(* Testing one rule.  What the Processor prints is kept as a list of        *)
(* entries [msg, rule, term, v]: v is the least verbosity that prints the   *)
(* entry, 0 for the failures and warnings that are always printed.          *)
(***************************************************************************)
Entry(msg, rule, term, v) == [msg |-> msg, rule |-> rule, term |-> term, v |-> v]

Alnum == Lower \cup Upper \cup Digit

DigitChars == <<"0","1","2","3","4","5","6","7","8","9">>

\* str(n) for a natural number
RECURSIVE IntStr(_)
IntStr(n) ==
  IF n < 10 THEN <<DigitChars[n + 1]>>
  ELSE IntStr(n \div 10) \o <<DigitChars[(n % 10) + 1]>>

\* str(pointer_level)
PointerLevelStr(pointer_level) ==
  IF IsNone(pointer_level) THEN <<"N","o","n","e">> ELSE IntStr(Val(pointer_level))

\* substitute_vars as _process_node builds it
SubstituteVars(cursor, pointer_level) ==
  ("filename" :> Lit(cursor.stem))
  @@ ("case:camel" :> <<Cls(Lower), Star(Alnum)>>)
  @@ ("case:pascal" :> <<Cls(Upper), Star(Alnum)>>)
  @@ ("case:snake" :>
        <<Cls(Lower),
          Opt(<<Star(Lower \cup Digit \cup {"_"}), Cls(Lower \cup Digit)>>)>>)
  @@ ("case:upper-snake" :>
        <<Cls(Upper),
          Opt(<<Star(Upper \cup Digit \cup {"_"}), Cls(Upper \cup Digit)>>)>>)
  @@ ("pointer-level" :> Lit(PointerLevelStr(pointer_level)))

\* A rewriting that leaves the case of the name alone: C13 does not hold of it.
UpperSnake_KeepsCase(name) ==
  Join([i \in 1..Len(name) |->
          IF i > 1 /\ name[i] \in Upper THEN <<"_", name[i]>>
          ELSE <<name[i]>>])

\* re.sub(r"(?<!^)(?=[A-Z])", "_", name).upper()
UpperSnake(name) ==
  Join([i \in 1..Len(name) |->
          IF i > 1 /\ name[i] \in Upper THEN <<"_", name[i]>>
          ELSE <<ToUpper(name[i])>>])

\* match.group("name") of the match of rule.parent_match against the parent's
\* name, and the warning printed when there is no match or no such group
Captured(parent_name, rule, match) ==
  IF IsNone(match)
  THEN [name |-> parent_name,
        log |-> <<Entry("parent_match does not match", rule.name, "", 0)>>]
  ELSE IF IsNone(Val(match).g)
  THEN [name |-> parent_name,
        log |-> <<Entry("no capture group name", rule.name, "", 0)>>]
  ELSE [name |-> SubSeq(parent_name, Val(match).g[1][1], Val(match).g[1][2] - 1),
        log |-> <<>>]

\* the parent name of an enum constant as rule.parent_match rewrites it
ParentName(cursor, rule) ==
  IF IsNone(rule.parent_match) THEN [name |-> cursor.parent.spelling, log |-> <<>>]
  ELSE Captured(cursor.parent.spelling, rule,
                FullMatch(Val(rule.parent_match), cursor.parent.spelling))

\* rule.prefix or rule.suffix
Affix(rule, is_prefix) == IF is_prefix THEN rule.prefix ELSE rule.suffix

\* if rule.prefix: (neither None nor the empty string)
Truthy(o) == ~IsNone(o) /\ Val(o) # <<>>

\* expanded_affix in test_affix_rules
ExpandedAffix(affix_rules, is_prefix, section, substitute_vars) ==
  Join([i \in 1..Len(affix_rules) |->
          _sub_placeholders(Val(Affix(affix_rules[i], is_prefix)),
                            section, substitute_vars)])

\* re.search(regex, name_without_prefix_suffix) in test_affix_rules
SearchAffix(expanded_affix, is_prefix, name) ==
  IF is_prefix THEN SearchPrefix(expanded_affix, name)
  ELSE SearchSuffix(expanded_affix, name)

\* An affix test that leaves the matched affix on the name: C14 does not hold
\* of it.
AffixOutcome_KeepsAffix(is_prefix, st, ignore_comment, match) ==
  IF IsNone(match)
  THEN IF ~IsNone(ignore_comment)
       THEN [st EXCEPT !.used = TRUE,
                       !.log = Append(@, Entry("ignored missing", "",
                                               IF is_prefix THEN "prefix" ELSE "suffix", 2))]
       ELSE [st EXCEPT !.success = "False",
                       !.log = Append(@, Entry("missing", "",
                                               IF is_prefix THEN "prefix" ELSE "suffix", 0))]
  ELSE st

\* test_affix_rules once the affix was searched for: st holds the variables of
\* _test_rule that the closure changes, name_without_prefix_suffix (name),
\* success, the used flag of the ignore comment, and the log
AffixOutcome(is_prefix, st, ignore_comment, match) ==
  IF IsNone(match)
  THEN IF ~IsNone(ignore_comment)
       THEN [st EXCEPT !.used = TRUE,
                       !.log = Append(@, Entry("ignored missing", "",
                                               IF is_prefix THEN "prefix" ELSE "suffix", 2))]
       ELSE [st EXCEPT !.success = "False",
                       !.log = Append(@, Entry("missing", "",
                                               IF is_prefix THEN "prefix" ELSE "suffix", 0))]
  ELSE [st EXCEPT !.name =
          IF is_prefix THEN SubSeq(st.name, Val(match), Len(st.name))
          ELSE SubSeq(st.name, 1, Val(match) - 1)]

\* test_affix_rules inside _test_rule; ignore_comment is Some(comment) or None
test_affix_rules(affix_rules, is_prefix, st, ignore_comment, section, substitute_vars) ==
  IF Len(affix_rules) = 0 THEN st
  ELSE AffixOutcome(is_prefix, st, ignore_comment,
         SearchAffix(ExpandedAffix(affix_rules, is_prefix, section, substitute_vars),
                     is_prefix, st.name))

\* An affix test that the empty string does not switch off: C3 does not hold
\* of it.
TestAffix_Always(rule, affix_rules, is_prefix, st, ignore_comment, section, substitute_vars) ==
  test_affix_rules(affix_rules, is_prefix, st, ignore_comment, section,
                   substitute_vars)

\* An affix test that only a rule without the affix leaves out: C17 does not
\* hold of it.
TestAffix_UnlessAbsent(rule, affix_rules, is_prefix, st, ignore_comment, section, substitute_vars) ==
  IF ~IsNone(Affix(rule, is_prefix))
  THEN test_affix_rules(affix_rules, is_prefix, st, ignore_comment, section,
                        substitute_vars)
  ELSE st

\* the accumulated affix is tested unless the rule's own affix is the empty
\* string
TestAffix(rule, affix_rules, is_prefix, st, ignore_comment, section, substitute_vars) ==
  IF Affix(rule, is_prefix) # Some(<<>>)
  THEN test_affix_rules(affix_rules, is_prefix, st, ignore_comment, section,
                        substitute_vars)
  ELSE st

\* substitute_vars with parent and parent:upper-snake set
WithParent(substitute_vars, parent_name) ==
  ("parent" :> Lit(parent_name))
  @@ ("parent:upper-snake" :> Lit(UpperSnake(parent_name)))
  @@ substitute_vars

\* An end of _test_rule that treats a failing rule as a failing allow-rule:
\* C5 does not hold of it.
TestOutcome_BodyContinues(rule, st, ignore_comment, vars, match) ==
  IF IsNone(match)
  THEN IF ~IsNone(ignore_comment)
       THEN [success |-> st.success, used |-> TRUE, vars |-> vars,
             log |-> Append(st.log, Entry("ignored", rule.name, "", 2))]
       ELSE [success |-> "None", used |-> st.used, vars |-> vars,
             log |-> Append(st.log, Entry("fails allow-rule", rule.name, "", 2))]
  ELSE [success |-> st.success, used |-> st.used, vars |-> vars,
        log |-> Append(st.log, Entry("allowed", rule.name, "", 2))]

\* An end of _test_rule that lets a failing allow-rule fail the declaration:
\* C6 does not hold of it.
TestOutcome_AllowFails(rule, st, ignore_comment, vars, match) ==
  IF IsNone(match)
  THEN IF ~IsNone(ignore_comment)
       THEN [success |-> st.success, used |-> TRUE, vars |-> vars,
             log |-> Append(st.log, Entry("ignored", rule.name, "", 2))]
       ELSE IF ~IsNone(rule.rule)
       THEN [success |-> "False", used |-> st.used, vars |-> vars,
             log |-> Append(st.log, Entry("fails rule", rule.name, "", 0))]
       ELSE [success |-> "False", used |-> st.used, vars |-> vars,
             log |-> Append(st.log, Entry("fails allow-rule", rule.name, "", 2))]
  ELSE [success |-> st.success, used |-> st.used, vars |-> vars,
        log |-> Append(st.log, Entry("allowed", rule.name, "", 2))]

\* An end of _test_rule after which a matching allow-rule lets the next rule
\* be tested: C16 does not hold of it.
TestOutcome_AllowContinues(rule, st, ignore_comment, vars, match) ==
  IF IsNone(match)
  THEN IF ~IsNone(ignore_comment)
       THEN [success |-> st.success, used |-> TRUE, vars |-> vars,
             log |-> Append(st.log, Entry("ignored", rule.name, "", 2))]
       ELSE IF ~IsNone(rule.rule)
       THEN [success |-> "False", used |-> st.used, vars |-> vars,
             log |-> Append(st.log, Entry("fails rule", rule.name, "", 0))]
       ELSE [success |-> "None", used |-> st.used, vars |-> vars,
             log |-> Append(st.log, Entry("fails allow-rule", rule.name, "", 2))]
  ELSE [success |-> IF IsNone(rule.rule) THEN "None" ELSE st.success,
        used |-> st.used, vars |-> vars,
        log |-> Append(st.log, Entry("allowed", rule.name, "", 2))]

\* the end of _test_rule, from the fullmatch of the expanded rule on
TestOutcome(rule, st, ignore_comment, vars, match) ==
  IF IsNone(match)
  THEN IF ~IsNone(ignore_comment)
       THEN [success |-> st.success, used |-> TRUE, vars |-> vars,
             log |-> Append(st.log, Entry("ignored", rule.name, "", 2))]
       ELSE IF ~IsNone(rule.rule)
       THEN [success |-> "False", used |-> st.used, vars |-> vars,
             log |-> Append(st.log, Entry("fails rule", rule.name, "", 0))]
       ELSE [success |-> "None", used |-> st.used, vars |-> vars,
             log |-> Append(st.log, Entry("fails allow-rule", rule.name, "", 2))]
  ELSE [success |-> st.success, used |-> st.used, vars |-> vars,
        log |-> Append(st.log, Entry("allowed", rule.name, "", 2))]

\* rule_text = rule.rule or rule.allow_rule
RuleText(rule) == IF Truthy(rule.rule) THEN rule.rule ELSE rule.allow_rule

\* _test_rule after the affixes, with substitute_vars as the parent handling
\* has left it
TestExpanded(rule, st, ignore_comment, section, vars) ==
  TestOutcome(rule, [st EXCEPT !.log = Append(@, Entry("testing", rule.name, "", 2))],
              ignore_comment, vars,
              FullMatch(_sub_placeholders(Val(RuleText(rule)), section, vars), st.name))

\* _test_rule after the affixes: parent is the rewritten parent name
TestParent(cursor, rule, st, ignore_comment, section, substitute_vars, parent) ==
  IF cursor.kind = "ENUM_CONSTANT_DECL"
  THEN TestExpanded(rule, [st EXCEPT !.log = @ \o parent.log], ignore_comment,
                    section, WithParent(substitute_vars, parent.name))
  ELSE TestExpanded(rule, st, ignore_comment, section, substitute_vars)

\* Processor._test_rule: success is "True", "False" or "None"; used tells
\* whether the ignore comment was marked used; vars is substitute_vars, which
\* the call changes for an enum constant
_test_rule(cursor, rule, prefix_rules, suffix_rules, ignore_comment, section, substitute_vars) ==
  TestParent(cursor, rule,
    TestAffix(rule, suffix_rules, FALSE,
      TestAffix(rule, prefix_rules, TRUE,
        [name |-> cursor.spelling, success |-> "True", used |-> FALSE, log |-> <<>>],
        ignore_comment, section, substitute_vars),
      ignore_comment, section, substitute_vars),
    ignore_comment, section, substitute_vars, ParentName(cursor, rule))

(***************************************************************************)
(* Evaluating one declaration                                              *)
(***************************************************************************)
\* self._ignore_comments.get(key): ignore_comments maps line numbers (the
\* translation unit is one file) to [token, used]
GetIgnore(ignore_comments, line) ==
  IF line \in DOMAIN ignore_comments THEN Some(ignore_comments[line]) ELSE None

\* The loop of _process_node over the rules, from rule i on.  L holds what the
\* loop changes: the rules (their kinds), prefix_rules, suffix_rules,
\* substitute_vars (vars), the used flag of the ignore comment of the line,
\* the log, and as a record of the run the number of rules _rule_applies was
\* called for (visited), the rules that applied (applied) and those that were
\* tested (tested), with the parent placeholders each test began and ended
\* with (parents).  result is "True" or "False".
RECURSIVE RuleLoop(_, _, _, _, _, _), VisitRule(_, _, _, _, _, _),
          ApplyRule(_, _, _, _, _, _), AfterTest(_, _, _, _, _, _, _)
RuleLoop(cursor, section, ignore_comment, ck, i, L) ==
  IF i > Len(L.rules) THEN [L EXCEPT !.result = "True"]
  ELSE VisitRule(cursor, section, ignore_comment, ck, i,
                 [L EXCEPT !.rules[i].kinds = KindsAfterMatch(@), !.visited = i])

\* one iteration, once _rule_applies has changed the kinds of rule i
VisitRule(cursor, section, ignore_comment, ck, i, L) ==
  IF ~_rule_applies(cursor, L.rules[i], Val(ck.kind), ck.visibility, PointerLevel(cursor))
  THEN RuleLoop(cursor, section, ignore_comment, ck, i + 1, L)
  ELSE ApplyRule(cursor, section, ignore_comment, ck, i,
         [L EXCEPT
            !.applied = Append(@, L.rules[i].name),
            !.prefix_rules = IF Truthy(L.rules[i].prefix) THEN Append(@, L.rules[i]) ELSE @,
            !.suffix_rules = IF Truthy(L.rules[i].suffix) THEN Append(@, L.rules[i]) ELSE @])

\* one iteration, once rule i is among prefix_rules and suffix_rules
ApplyRule(cursor, section, ignore_comment, ck, i, L) ==
  IF IsNone(L.rules[i].rule) /\ IsNone(L.rules[i].allow_rule)
  THEN RuleLoop(cursor, section, ignore_comment, ck, i + 1, L)
  ELSE AfterTest(cursor, section, ignore_comment, ck, i, L,
         _test_rule(cursor, L.rules[i], L.prefix_rules, L.suffix_rules,
                    ignore_comment, section, L.vars))

\* substitute_vars["parent"] and substitute_vars["parent:upper-snake"], None
\* when the dict has no such keys
ParentOf(substitute_vars) ==
  IF "parent" \in DOMAIN substitute_vars
  THEN Some([parent |-> substitute_vars["parent"],
             upper_snake |-> substitute_vars["parent:upper-snake"]])
  ELSE None

\* the parent placeholders of the test of rule: affix is what substitute_vars
\* held when test_affix_rules ran, body what it held when the pattern of the
\* rule was expanded
ParentsOf(rule, substitute_vars, res) ==
  [rule |-> rule.name, affix |-> ParentOf(substitute_vars), body |-> ParentOf(res.vars)]

\* one iteration, once _test_rule has returned res
AfterTest(cursor, section, ignore_comment, ck, i, L, res) ==
  IF res.success # "None"
  THEN [L EXCEPT !.vars = res.vars, !.used = @ \/ res.used, !.log = @ \o res.log,
                 !.tested = Append(@, L.rules[i].name),
                 !.parents = Append(@, ParentsOf(L.rules[i], L.vars, res)),
                 !.result = res.success]
  ELSE RuleLoop(cursor, section, ignore_comment, ck, i + 1,
         [L EXCEPT !.vars = res.vars, !.used = @ \/ res.used, !.log = @ \o res.log,
                   !.tested = Append(@, L.rules[i].name),
                   !.parents = Append(@, ParentsOf(L.rules[i], L.vars, res))])

\* _process_node for a cursor it returns True for without looking at the rules
NotEvaluated(rules, ignore_comments) ==
  [passed |-> TRUE, rules |-> rules, ignore_comments |-> ignore_comments,
   log |-> <<>>, visited |-> 0, applied |-> <<>>, tested |-> <<>>,
   prefix_rules |-> <<>>, suffix_rules |-> <<>>, parents |-> <<>>,
   evaluated |-> FALSE]

\* _process_node once the loop over the rules has ended in L
Evaluated(cursor, ignore_comments, L) ==
  [passed |-> (L.result = "True"),
   rules |-> L.rules,
   ignore_comments |->
     IF L.used THEN [ignore_comments EXCEPT ![cursor.line].used = TRUE]
     ELSE ignore_comments,
   log |-> L.log, visited |-> L.visited, applied |-> L.applied,
   tested |-> L.tested,
   prefix_rules |-> [i \in 1..Len(L.prefix_rules) |-> L.prefix_rules[i].name],
   suffix_rules |-> [i \in 1..Len(L.suffix_rules) |-> L.suffix_rules[i].name],
   parents |-> L.parents, evaluated |-> TRUE]

\* _process_node from the classification ck of the cursor on
Classified(cursor, rules, section, ignore_comments, ck) ==
  IF IsNone(ck.kind) THEN NotEvaluated(rules, ignore_comments)
  ELSE Evaluated(cursor, ignore_comments,
         RuleLoop(cursor, section, GetIgnore(ignore_comments, cursor.line), ck, 1,
           [rules |-> rules, prefix_rules |-> <<>>, suffix_rules |-> <<>>,
            vars |-> SubstituteVars(cursor, PointerLevel(cursor)),
            used |-> FALSE, log |-> <<>>, visited |-> 0, applied |-> <<>>,
            tested |-> <<>>, parents |-> <<>>, result |-> "True"]))

\* Processor._process_node: passed is the value returned; rules and
\* ignore_comments are the Processor's, as the call leaves them; prefix_rules
\* and suffix_rules are the names of the rules of the two lists at the end,
\* parents the parent placeholders of the tests
_process_node(cursor, rules, section, ignore_comments) ==
  IF ~cursor.main THEN NotEvaluated(rules, ignore_comments)
  ELSE Classified(cursor, rules, section, ignore_comments, _get_config_kind(cursor))

(***************************************************************************)
(* The inputs: configurations, declarations and tokens                     *)
(***************************************************************************)
\* the longest rule set
MaxRules == 2

\* the last line of the source file
MaxLine == 2

\* the most tokens of the source file
MaxTokens == 3

NewRule(name) ==
  [name |-> name, kinds |-> None, visibility |-> None, types |-> None,
   pointer |-> PointerNone, parent_match |-> None, prefix |-> None,
   suffix |-> None, rule |-> None, allow_rule |-> None]

\* kind = struct_tag / rule = ${case:pascal}
BodyRule ==
  [NewRule("body-rule") EXCEPT !.kinds = Some(<<"struct_tag">>),
                               !.rule = Some(<<Ph("case:pascal")>>)]

\* the sections of configuration files, as RuleSet.__init__ loads them
RuleCatalog ==
  { \* kind = struct_tag / prefix = T_
    [NewRule("prefix-rule") EXCEPT !.kinds = Some(<<"struct_tag">>),
                                   !.prefix = Some(Lit(<<"T","_">>))],
    BodyRule,
    \* allow-rule = ${case:snake}
    [NewRule("allow-snake") EXCEPT !.allow_rule = Some(<<Ph("case:snake")>>)],
    \* kind = tag, typedef / rule = ${case:snake}
    [NewRule("types-snake") EXCEPT !.kinds = Some(<<"tag", "typedef">>),
                                   !.rule = Some(<<Ph("case:snake")>>)],
    \* pointer = true / rule = p${case:pascal}
    [NewRule("pointer-any") EXCEPT !.pointer = PointerBool(TRUE),
                                   !.rule = Some(<<Chr("p"), Ph("case:pascal")>>)],
    \* pointer = 2 / rule = pp${case:pascal}
    [NewRule("pointer-two") EXCEPT !.pointer = PointerInt(2),
                                   !.rule = Some(<<Chr("p"), Chr("p"), Ph("case:pascal")>>)],
    \* kind = struct_tag, member / prefix = (empty) / rule = ${case:pascal}
    [NewRule("no-prefix") EXCEPT !.kinds = Some(<<"struct_tag", "member">>),
                                 !.prefix = Some(<<>>),
                                 !.rule = Some(<<Ph("case:pascal")>>)] }

\* sections that make a configuration file on their own
SingleRules ==
  { \* kind = typedef, variable / suffix = _t / rule = ${case:pascal}
    [NewRule("suffix-rule") EXCEPT !.kinds = Some(<<"typedef", "variable">>),
                                   !.suffix = Some(Lit(<<"_","t">>)),
                                   !.rule = Some(<<Ph("case:pascal")>>)],
    \* kind = enum_constant / parent_match = (?P<name>\w+)_e$ /
    \* rule = ${parent:upper-snake}_.*
    [NewRule("enum-rule") EXCEPT
       !.kinds = Some(<<"enum_constant">>),
       !.parent_match = Some(<<Grp(<<Cls(Word), Star(Word)>>), Chr("_"), Chr("e"), Eol>>),
       !.rule = Some(<<Ph("parent:upper-snake"), Chr("_"), Star(AnyChar)>>)],
    \* kind = variable, parameter / visibility = file / type = int /
    \* allow-rule = ${p:id}
    [NewRule("file-int") EXCEPT !.kinds = Some(<<"variable", "parameter">>),
                                !.visibility = Some(<<"file">>),
                                !.types = Some(<<Lit(<<"i","n","t">>)>>),
                                !.allow_rule = Some(<<Ph("p:id")>>)] }

\* the [placeholders] sections: none, or id = ${case:camel}
Sections == { <<>>, ("p:id" :> <<Ph("case:camel")>>) }

\* the lists of at most n rules of the catalog
RECURSIVE RuleLists(_)
RuleLists(n) ==
  IF n = 0 THEN { <<>> }
  ELSE LET shorter == RuleLists(n - 1)
       IN shorter \cup
          { Append(rs, r) : rs \in { x \in shorter : Len(x) = n - 1 },
                            r \in RuleCatalog }

\* section names are unique
DistinctNames(rs) ==
  \A i, j \in 1..Len(rs) : rs[i].name = rs[j].name => i = j

\* the rule sets of at most n rules of the catalog
RuleSetsOf(n) ==
  { [rules |-> x, placeholders |-> <<>>] : x \in { y \in RuleLists(n) : DistinctNames(y) } }

\* the rule sets of one section, with each [placeholders] section
SingleRuleSets ==
  { [rules |-> <<r>>, placeholders |-> p] : r \in SingleRules, p \in Sections }

RuleSets == RuleSetsOf(MaxRules) \cup SingleRuleSets

\* kind = typedef / suffix = _t
SuffixOnly ==
  [NewRule("suffix-only") EXCEPT !.kinds = Some(<<"typedef">>),
                                 !.suffix = Some(Lit(<<"_","t">>))]

\* kind = typedef / suffix = (empty) / rule = ${case:pascal}
NoSuffix ==
  [NewRule("no-suffix") EXCEPT !.kinds = Some(<<"typedef">>),
                               !.suffix = Some(<<>>),
                               !.rule = Some(<<Ph("case:pascal")>>)]

\* kind = enum_constant / allow-rule = ${case:snake}
EnumAllow ==
  [NewRule("enum-allow") EXCEPT !.kinds = Some(<<"enum_constant">>),
                                !.allow_rule = Some(<<Ph("case:snake")>>)]

\* kind = enum_constant / parent_match = (?P<name>\w+)_e$ /
\* prefix = ${parent:upper-snake}_ / rule = ${case:upper-snake}
EnumPrefix ==
  [NewRule("enum-prefix") EXCEPT
     !.kinds = Some(<<"enum_constant">>),
     !.parent_match = Some(<<Grp(<<Cls(Word), Star(Word)>>), Chr("_"), Chr("e"), Eol>>),
     !.prefix = Some(<<Ph("parent:upper-snake"), Chr("_")>>),
     !.rule = Some(<<Ph("case:upper-snake")>>)]

\* rule sets whose rules carry suffixes, and prefixes made of the parent of
\* an enum constant
AffixRuleSets ==
  { [rules |-> x, placeholders |-> <<>>] :
      x \in { <<SuffixOnly, NoSuffix>>, <<EnumPrefix>>, <<EnumAllow, EnumPrefix>> } }

\* the rule set of the body rule alone
TokenRuleSets == { [rules |-> <<BodyRule>>, placeholders |-> <<>>] }

IntType(ptr) == [ptr |-> ptr, kind |-> "INT", spelling |-> <<"i","n","t">>]

NoParent == [spelling |-> <<>>, anonymous |-> FALSE, type_spelling |-> <<>>]

NewCursor(kind, spelling) ==
  [kind |-> kind, spelling |-> spelling, line |-> 0, main |-> TRUE,
   header |-> FALSE, stem |-> <<"m","a","i","n">>, linkage |-> "INVALID",
   extern_storage |-> FALSE, inlined |-> FALSE, tokens |-> <<>>,
   type |-> IntType(0), underlying |-> IntType(0), parent |-> NoParent,
   children |-> <<>>]

\* translation_unit.cursor: its location is in no file
RootCursor == [NewCursor("TRANSLATION_UNIT", <<"m","a","i","n",".","c">>)
                 EXCEPT !.main = FALSE]

NameA == <<"a">>

NameWidget == <<"W","i","d","g","e","t">>

NameTWidget == <<"T","_","W","i","d","g","e","t">>

NameLowerWidget == <<"w","i","d","g","e","t">>

NameCount == <<"c","o","u","n","t">>

NamePCount == <<"p","C","o","u","n","t">>

NamePpCount == <<"p","p","C","o","u","n","t">>

NameRun == <<"r","u","n">>

NameFooT == <<"F","o","o","_","t">>

NameFoo == <<"F","o","o">>

NameColorE == <<"C","o","l","o","r","_","e">>

NameColorRed == <<"C","o","l","o","r","_","R","E","D">>

NameUpperColorRed == <<"C","O","L","O","R","_","R","E","D">>

NameRed == <<"R","E","D">>

RecordType(name) == [ptr |-> 0, kind |-> "RECORD", spelling |-> name]

\* int a; inside struct parent
FieldA(parent) ==
  [NewCursor("FIELD_DECL", NameA) EXCEPT
     !.parent = [spelling |-> parent, anonymous |-> FALSE,
                 type_spelling |-> KwStruct \o <<" ">> \o parent]]

\* struct T_Widget { int a; };
StructTWidget ==
  [NewCursor("STRUCT_DECL", NameTWidget) EXCEPT
     !.tokens = <<KwStruct, NameTWidget, <<"{">>, <<"i","n","t">>, NameA, <<";">>, <<"}">> >>,
     !.type = RecordType(KwStruct \o <<" ">> \o NameTWidget),
     !.children = <<FieldA(NameTWidget)>>]

\* struct Widget;  and  struct widget;
StructForward(name) ==
  [NewCursor("STRUCT_DECL", name) EXCEPT
     !.tokens = <<KwStruct, name>>,
     !.type = RecordType(KwStruct \o <<" ">> \o name)]

\* static int count;   int *pCount;   int **ppCount;
Variable(name, ptr, linkage) ==
  [NewCursor("VAR_DECL", name) EXCEPT !.type = IntType(ptr), !.linkage = linkage]

\* void run(int *a);
FunctionRun ==
  [NewCursor("FUNCTION_DECL", NameRun) EXCEPT
     !.linkage = "EXTERNAL",
     !.type = [ptr |-> 0, kind |-> "FUNCTIONPROTO",
               spelling |-> <<"v","o","i","d"," ","(","i","n","t"," ","*",")">>],
     !.children = << [NewCursor("PARM_DECL", NameA) EXCEPT !.type = IntType(1)] >>]

\* typedef int Foo_t;
TypedefFooT ==
  [NewCursor("TYPEDEF_DECL", NameFooT) EXCEPT
     !.type = [ptr |-> 0, kind |-> "TYPEDEF", spelling |-> NameFooT]]

\* the struct of  typedef struct { int a; } Foo;  clang spells it Foo
UnnamedStruct ==
  [NewCursor("STRUCT_DECL", NameFoo) EXCEPT
     !.tokens = <<KwStruct, <<"{">>, <<"i","n","t">>, NameA, <<";">>, <<"}">> >>,
     !.type = RecordType(NameFoo),
     !.children = <<FieldA(NameFoo)>>]

\* typedef struct { int a; } Foo;  whose child is the struct
TypedefFoo ==
  [NewCursor("TYPEDEF_DECL", NameFoo) EXCEPT
     !.type = [ptr |-> 0, kind |-> "TYPEDEF", spelling |-> NameFoo],
     !.underlying = RecordType(NameFoo),
     !.children = <<UnnamedStruct>>]

EnumConstant(name) ==
  [NewCursor("ENUM_CONSTANT_DECL", name) EXCEPT
     !.parent = [spelling |-> NameColorE, anonymous |-> FALSE,
                 type_spelling |-> KwEnum \o <<" ">> \o NameColorE]]

\* enum Color_e { Color_RED, COLOR_RED, RED };
EnumColor ==
  [NewCursor("ENUM_DECL", NameColorE) EXCEPT
     !.tokens = <<KwEnum, NameColorE, <<"{">>, NameColorRed, NameUpperColorRed,
                  NameRed, <<"}">> >>,
     !.type = [ptr |-> 0, kind |-> "ENUM", spelling |-> KwEnum \o <<" ">> \o NameColorE],
     !.children = <<EnumConstant(NameColorRed), EnumConstant(NameUpperColorRed),
                    EnumConstant(NameRed)>>]

\* a declaration of an included header
Included == [Variable(NameCount, 0, "EXTERNAL") EXCEPT !.main = FALSE]

\* The top-level declarations of source files: each is the list of the
\* children it adds to the translation unit's cursor.
Statements ==
  { <<StructTWidget>>, <<StructForward(NameWidget)>>, <<StructForward(NameLowerWidget)>>,
    <<Variable(NameCount, 0, "INTERNAL")>>, <<Variable(NamePCount, 1, "EXTERNAL")>>,
    <<Variable(NamePpCount, 2, "EXTERNAL")>>, <<FunctionRun>>, <<TypedefFooT>>,
    <<UnnamedStruct, TypedefFoo>>, <<EnumColor>>, <<Included>> }

\* the declaration with its cursors, all on one line
RECURSIVE AtLine(_, _)
AtLine(cursors, line) ==
  [i \in 1..Len(cursors) |->
     [cursors[i] EXCEPT !.line = line, !.children = AtLine(@, line)]]

\* the comments and other tokens of source files
TokenSpellings ==
  [COMMENT |-> {"// c-name-style ignore", "/* c-name-style ignore */",
                "// c-name-style off", "// todo"},
   KEYWORD |-> {"int"}]

\* re.fullmatch(_COMMENT_REGEX, spelling), then
\* (match.group(1) or match.group(2)).strip(): None when there is no match
CommentValue(spelling) ==
  CASE spelling = "// c-name-style ignore" -> Some("ignore")
    [] spelling = "/* c-name-style ignore */" -> Some("ignore")
    [] spelling = "// c-name-style off" -> Some("off")
    [] OTHER -> None

\* the comments that reach to the end of their line
LineComments == {"// c-name-style ignore", "// c-name-style off", "// todo"}

\* the tokens that may follow the tokens of stream: on the line of the last
\* one, unless that is a comment to the end of the line, or the first of a
\* later line
NextTokens(stream) ==
  LET n == Len(stream)
      from == IF n = 0 THEN 1
              ELSE IF stream[n].spelling \in LineComments THEN stream[n].line + 1
              ELSE stream[n].line
  IN { t \in [kind : DOMAIN TokenSpellings,
              spelling : UNION {TokenSpellings[k] : k \in DOMAIN TokenSpellings},
              line : from..MaxLine, column : 1..(n + 1)] :
         /\ t.spelling \in TokenSpellings[t.kind]
         /\ t.column = IF n > 0 /\ t.line = stream[n].line
                       THEN stream[n].column + 1 ELSE 1 }

\* the token streams of at most n tokens
RECURSIVE TokenStreams(_)
TokenStreams(n) ==
  IF n = 0 THEN { <<>> }
  ELSE LET shorter == TokenStreams(n - 1)
       IN shorter \cup
          UNION { { Append(st, t) : t \in NextTokens(st) } :
                    st \in { x \in shorter : Len(x) = n - 1 } }

\* a file without comments, and one whose first line ends in an ignore comment
OneLineStreams ==
  { <<>>,
    << [kind |-> "KEYWORD", spelling |-> "int", line |-> 1, column |-> 1],
       [kind |-> "COMMENT", spelling |-> "// c-name-style ignore", line |-> 1,
        column |-> 2] >> }

(***************************************************************************)
(* Loading the configuration.  A ConfigParser is the list of its sections  *)
(* in file order; a section has a name and options, a function from option *)
(* names to values.  The value of pointer is a string; the values of kind, *)
(* type and visibility are given as the lists that split(",") and strip()  *)
(* make of them, the values of the other options as the templates and      *)
(* patterns they spell.                                                    *)
(***************************************************************************)
\* section.get(option)
Get(section, option) ==
  IF option \in DOMAIN section.options THEN Some(section.options[option]) ELSE None

\* the value of a decimal digit
DigitValue(c) == CHOOSE d \in 0..9 : DigitChars[d + 1] = c

\* the number a string of decimal digits spells
RECURSIVE Decimal(_)
Decimal(digits) ==
  IF digits = <<>> THEN 0
  ELSE 10 * Decimal(SubSeq(digits, 1, Len(digits) - 1))
         + DigitValue(digits[Len(digits)])

\* int(value): None stands for ValueError
ParseInt(value) ==
  LET signed == value # <<>> /\ Head(value) \in {"+", "-"}
      digits == IF signed THEN Tail(value) ELSE value
  IN IF digits = <<>> \/ \E i \in 1..Len(digits) : digits[i] \notin Digit
     THEN None
     ELSE Some(IF signed /\ Head(value) = "-" THEN 0 - Decimal(digits)
               ELSE Decimal(digits))

\* ConfigParser.BOOLEAN_STATES, which getboolean looks value.lower() up in;
\* the comparison is made on the upper-case spellings, which agree exactly
\* when the lower-case ones do
BooleanTrue == { <<"1">>, <<"Y","E","S">>, <<"T","R","U","E">>, <<"O","N">> }

BooleanFalse == { <<"0">>, <<"N","O">>, <<"F","A","L","S","E">>, <<"O","F","F">> }

\* section.getboolean(option) of a value that is there: None stands for
\* ValueError
ParseBoolean(value) ==
  LET upper == [i \in 1..Len(value) |-> ToUpper(value[i])]
  IN IF upper \in BooleanTrue THEN Some(TRUE)
     ELSE IF upper \in BooleanFalse THEN Some(FALSE)
     ELSE None

\* try: section.getint("pointer") except ValueError:
\* section.getboolean("pointer"); None stands for the ValueError of getboolean
ParsePointer(section) ==
  LET value == Get(section, "pointer")
  IN IF IsNone(value) THEN Some(PointerNone)
     ELSE IF ~IsNone(ParseInt(Val(value))) THEN Some(PointerInt(Val(ParseInt(Val(value)))))
     ELSE IF ~IsNone(ParseBoolean(Val(value)))
          THEN Some(PointerBool(Val(ParseBoolean(Val(value)))))
     ELSE None

\* f"p:{k}" for the option names of the [placeholders] sections
PlaceholderKey == [id |-> "p:id"]

\* {f"p:{k}": v for k, v in config.items("placeholders")}
Placeholders(section) ==
  [n \in { PlaceholderKey[k] : k \in DOMAIN section.options } |->
     section.options[CHOOSE k \in DOMAIN section.options : PlaceholderKey[k] = n]]

\* the exceptions that end RuleSet.__init__: the Exception of lines 69 and 71
\* names the section, the ValueError of getboolean names the value
SectionError(message, section) ==
  [type |-> "Exception", message |-> message, section |-> Some(section.name),
   value |-> None]

NotABoolean(section) ==
  [type |-> "ValueError", message |-> "Not a boolean", section |-> None,
   value |-> Get(section, "pointer")]

\* Rule(name=section_name, ...)
NewRuleOf(section, pointer) ==
  [name |-> section.name, kinds |-> Get(section, "kind"),
   visibility |-> Get(section, "visibility"), types |-> Get(section, "type"),
   pointer |-> pointer, parent_match |-> Get(section, "parent_match"),
   prefix |-> Get(section, "prefix"), suffix |-> Get(section, "suffix"),
   rule |-> Get(section, "rule"), allow_rule |-> Get(section, "allow-rule")]

\* The loop of RuleSet.__init__ over the sections left, rule_set being what
\* the sections before them made: raised is the exception that ended it, if
\* any.
RECURSIVE LoadSections(_, _)
LoadSections(sections, rule_set) ==
  IF sections = <<>> THEN [raised |-> None, rule_set |-> rule_set]
  ELSE IF Head(sections).name = "placeholders"
  THEN LoadSections(Tail(sections),
         [rule_set EXCEPT !.placeholders = Placeholders(Head(sections))])
  ELSE IF IsNone(ParsePointer(Head(sections)))
  THEN [raised |-> Some(NotABoolean(Head(sections))), rule_set |-> rule_set]
  ELSE IF /\ IsNone(Get(Head(sections), "rule"))
          /\ IsNone(Get(Head(sections), "allow-rule"))
          /\ IsNone(Get(Head(sections), "prefix"))
          /\ IsNone(Get(Head(sections), "suffix"))
  THEN [raised |-> Some(SectionError("does not have a 'rule' or 'allow-rule' member",
                                     Head(sections))),
        rule_set |-> rule_set]
  ELSE IF /\ ~IsNone(Get(Head(sections), "rule"))
          /\ ~IsNone(Get(Head(sections), "allow-rule"))
  THEN [raised |-> Some(SectionError("may not have both a 'rule' and an 'allow-rule",
                                     Head(sections))),
        rule_set |-> rule_set]
  ELSE LoadSections(Tail(sections),
         [rule_set EXCEPT !.rules =
            Append(@, NewRuleOf(Head(sections), Val(ParsePointer(Head(sections)))))])

\* a RuleSet without rules and placeholders
EmptyRuleSet == [rules |-> <<>>, placeholders |-> <<>>]

\* RuleSet.__init__(config)
RuleSetInit(sections) == LoadSections(sections, EmptyRuleSet)

\* the most sections of a configuration file
MaxSections == 2

\* the sections of configuration files
SectionCatalog ==
  { \* [prefix-rule] kind = struct_tag / prefix = T_
    [name |-> "prefix-rule",
     options |-> [kind |-> <<"struct_tag">>, prefix |-> Lit(<<"T","_">>)]],
    \* [body-rule] kind = struct_tag / rule = ${case:pascal}
    [name |-> "body-rule",
     options |-> [kind |-> <<"struct_tag">>, rule |-> <<Ph("case:pascal")>>]],
    \* [placeholders] id = ${case:camel}
    [name |-> "placeholders", options |-> [id |-> <<Ph("case:camel")>>]],
    \* [pointer-two] pointer = 2 / rule = pp${case:pascal}
    [name |-> "pointer-two",
     options |-> [pointer |-> <<"2">>,
                  rule |-> <<Chr("p"), Chr("p"), Ph("case:pascal")>>]],
    \* [pointer-any] pointer = Yes / rule = p${case:pascal}
    [name |-> "pointer-any",
     options |-> [pointer |-> <<"Y","e","s">>,
                  rule |-> <<Chr("p"), Ph("case:pascal")>>]],
    \* [no-pattern] kind = struct_tag
    [name |-> "no-pattern", options |-> [kind |-> <<"struct_tag">>]],
    \* [two-patterns] rule = ${case:pascal} / allow-rule = ${case:snake}
    [name |-> "two-patterns",
     options |-> ("rule" :> <<Ph("case:pascal")>>)
                   @@ ("allow-rule" :> <<Ph("case:snake")>>)],
    \* [pointer-maybe] pointer = maybe / rule = ${case:pascal}
    [name |-> "pointer-maybe",
     options |-> [pointer |-> <<"m","a","y","b","e">>,
                  rule |-> <<Ph("case:pascal")>>]] }

\* the lists of at most n sections of the catalog
RECURSIVE SectionLists(_)
SectionLists(n) ==
  IF n = 0 THEN { <<>> }
  ELSE LET shorter == SectionLists(n - 1)
       IN shorter \cup
          { Append(ss, x) : ss \in { y \in shorter : Len(y) = n - 1 },
                            x \in SectionCatalog }

\* the configuration files of at most n sections: section names are unique
ConfigFiles(n) == { x \in SectionLists(n) : DistinctNames(x) }

(***************************************************************************)
(* The Processor.  process(translation_unit) reads the tokens of the        *)
(* translation unit, then walks its cursors, then reports the ignore        *)
(* comments that were not used.  The translation unit is the input: its     *)
(* token stream is given, the children of its cursor are drawn as the walk  *)
(* reaches them.                                                            *)
(***************************************************************************)
VARIABLES
  config,           \* the RuleSet as RuleSet.__init__ built it
  rule_set,         \* self._rule_set: [rules, placeholders]
  ignore_comments,  \* self._ignore_comments: line -> [token, used]
  has_failures,     \* self._has_failures
  pc,               \* where process is: "tokens", "walk" or "done"
  tokens,           \* the tokens _process_tokens has read
  unread,           \* the tokens it has yet to read
  todo,             \* the cursors the calls of _process in progress have left
  last,             \* the last call of _process_node: its cursor, the rules
                    \* and ignore comments it began with, and its outcome
  warnings,         \* the warnings printed by process and _process_tokens
  returned,         \* what process returned, once it has
  parser,           \* the ConfigParser the main program hands to RuleSet; None
                    \* in the runs that start from the RuleSet already built
  raised            \* the exception that ended the program, if any

vars == <<config, rule_set, ignore_comments, has_failures, pc, tokens, unread,
          todo, last, warnings, returned, parser, raised>>

\* Processor.__init__, and the translation unit handed to process
Start(rs, stream) ==
  /\ config = rs
  /\ rule_set = rs
  /\ ignore_comments = <<>>
  /\ has_failures = FALSE
  /\ pc = "tokens"
  /\ tokens = <<>>
  /\ unread = stream
  /\ todo = <<>>
  /\ last = [cursor |-> RootCursor, rules_before |-> rs.rules,
             ignore_before |-> <<>>, run |-> NotEvaluated(rs.rules, <<>>)]
  /\ warnings = {}
  /\ returned = None
  /\ parser = None
  /\ raised = None

\* every rule set, with the token streams of one line
Init == \E rs \in RuleSets, stream \in OneLineStreams : Start(rs, stream)

\* every token stream, with one rule to fail declarations
InitTokens ==
  \E rs \in TokenRuleSets, stream \in TokenStreams(MaxTokens) : Start(rs, stream)

\* translation_unit.get_tokens(extent=span_before), span_before reaching from
\* (line, 1) to (line, 1): clang lexes from the start of the line and returns
\* the first token it meets
TokensBefore(all_tokens, line) ==
  LET here == SelectSeq(all_tokens, LAMBDA t : t.line >= line)
  IN IF here = <<>> THEN <<>> ELSE <<Head(here)>>

\* A registration under the comment's own line, whatever precedes it: C9 does
\* not hold of it.
IgnoreLine_OwnLine(all_tokens, token) == token.line

\* the line an ignore comment is registered for
IgnoreLine(all_tokens, token) ==
  LET tokens_before == TokensBefore(all_tokens, token.line)
  IN IF Len(tokens_before) = 0
        \/ (Len(tokens_before) = 1 /\ tokens_before[1] = token)
     THEN token.line + 1
     ELSE token.line

\* one iteration of the loop of _process_tokens
ProcessToken ==
  /\ pc = "tokens"
  /\ unread # <<>>
  /\ tokens' = Append(tokens, Head(unread))
  /\ unread' = Tail(unread)
  /\ LET token == Head(unread)
         match == CommentValue(token.spelling)
     IN IF token.kind = "COMMENT" /\ ~IsNone(match)
        THEN IF Val(match) = "ignore"
             THEN /\ ignore_comments' =
                       (IgnoreLine(tokens \o unread, token)
                          :> [token |-> token, used |-> FALSE])
                         @@ ignore_comments
                  /\ UNCHANGED warnings
             ELSE /\ warnings' = warnings \cup
                       {[msg |-> "Unrecognised comment", line |-> token.line,
                         column |-> token.column]}
                  /\ UNCHANGED ignore_comments
        ELSE UNCHANGED <<ignore_comments, warnings>>
  /\ UNCHANGED <<config, rule_set, has_failures, pc, todo, last, returned,
                 parser, raised>>

\* A walk that gives up the cursors left once a declaration has failed: C11
\* does not hold of it.
Processed_StopsAtFailure(cursor, rest, run) ==
  /\ rule_set' = [rule_set EXCEPT !.rules = run.rules]
  /\ ignore_comments' = run.ignore_comments
  /\ has_failures' = (has_failures \/ ~run.passed)
  /\ last' = [cursor |-> cursor, rules_before |-> rule_set.rules,
               ignore_before |-> ignore_comments, run |-> run]
  /\ todo' = IF ~run.passed THEN <<>>
             ELSE (IF cursor.kind # "TYPEDEF_DECL"
                      \/ TypeKind(cursor.underlying) \notin {"RECORD", "ENUM"}
                   THEN cursor.children ELSE <<>>) \o rest

\* A walk that goes below every typedef: C12 does not hold of it.
Processed_BelowTypedefs(cursor, rest, run) ==
  /\ rule_set' = [rule_set EXCEPT !.rules = run.rules]
  /\ ignore_comments' = run.ignore_comments
  /\ has_failures' = (has_failures \/ ~run.passed)
  /\ last' = [cursor |-> cursor, rules_before |-> rule_set.rules,
               ignore_before |-> ignore_comments, run |-> run]
  /\ todo' = cursor.children \o rest

\* Processor._process(cursor) once _process_node has returned run; the calls
\* for the children of cursor are left in todo
Processed(cursor, rest, run) ==
  /\ rule_set' = [rule_set EXCEPT !.rules = run.rules]
  /\ ignore_comments' = run.ignore_comments
  /\ has_failures' = (has_failures \/ ~run.passed)
  /\ last' = [cursor |-> cursor, rules_before |-> rule_set.rules,
               ignore_before |-> ignore_comments, run |-> run]
  /\ todo' = (IF cursor.kind # "TYPEDEF_DECL"
                 \/ TypeKind(cursor.underlying) \notin {"RECORD", "ENUM"}
              THEN cursor.children ELSE <<>>) \o rest

\* Processor._process(cursor)
Process(cursor, rest) ==
  Processed(cursor, rest,
    _process_node(cursor, rule_set.rules, rule_set.placeholders, ignore_comments))

\* the next child of the translation unit's cursor, and its siblings
Declared(cursors) == Process(Head(cursors), Tail(cursors))

\* process, once the tokens are read: the call of _process for the
\* translation unit's cursor, whose children follow
ProcessRoot ==
  /\ pc = "tokens"
  /\ unread = <<>>
  /\ pc' = "walk"
  /\ tokens' = <<>>
  /\ Process(RootCursor, <<>>)
  /\ UNCHANGED <<config, unread, warnings, returned, parser, raised>>

\* the call of _process for the next child of the translation unit's cursor:
\* the first cursor of a declaration on a line not before the last one
ProcessStatement(statement, line) ==
  /\ pc = "walk"
  /\ todo = <<>>
  /\ line >= last.cursor.line
  /\ Declared(AtLine(statement, line))
  /\ UNCHANGED <<config, pc, tokens, unread, warnings, returned, parser, raised>>

\* the call of _process for the next cursor below a declaration
ProcessChild ==
  /\ pc = "walk"
  /\ todo # <<>>
  /\ Process(Head(todo), Tail(todo))
  /\ UNCHANGED <<config, pc, tokens, unread, warnings, returned, parser, raised>>

\* An end of process that warns of every ignore comment: C10 does not hold of
\* it.
Finish_WarnsAll ==
  /\ pc = "walk"
  /\ todo = <<>>
  /\ pc' = "done"
  /\ warnings' = warnings \cup
       { [msg |-> "ignore comment not used",
          line |-> ignore_comments[k].token.line,
          column |-> ignore_comments[k].token.column] : k \in DOMAIN ignore_comments }
  /\ returned' = Some(~has_failures)
  /\ UNCHANGED <<config, rule_set, ignore_comments, has_failures, tokens, unread,
                 todo, last, parser, raised>>

\* the end of process: the unused ignore comments, and the value returned
Finish ==
  /\ pc = "walk"
  /\ todo = <<>>
  /\ pc' = "done"
  /\ warnings' = warnings \cup
       { [msg |-> "ignore comment not used",
          line |-> ignore_comments[k].token.line,
          column |-> ignore_comments[k].token.column] :
            k \in { x \in DOMAIN ignore_comments : ~ignore_comments[x].used } }
  /\ returned' = Some(~has_failures)
  /\ UNCHANGED <<config, rule_set, ignore_comments, has_failures, tokens, unread,
                 todo, last, parser, raised>>

Next ==
  \/ ProcessToken
  \/ ProcessRoot
  \/ \E statement \in Statements, line \in 1..MaxLine : ProcessStatement(statement, line)
  \/ ProcessChild
  \/ Finish

Spec == Init /\ [][Next]_vars

SpecTokens == InitTokens /\ [][Next]_vars

\* every rule set, those of the affixes too, with the token streams of one
\* line
InitAffixes ==
  \E rs \in RuleSets \cup AffixRuleSets, stream \in OneLineStreams : Start(rs, stream)

SpecAffixes == InitAffixes /\ [][Next]_vars

\* the main program before RuleSet(config): every configuration file, with
\* the token streams of one line
InitLoad ==
  \E sections \in ConfigFiles(MaxSections), stream \in OneLineStreams :
    /\ parser = Some(sections)
    /\ raised = None
    /\ config = EmptyRuleSet
    /\ rule_set = EmptyRuleSet
    /\ ignore_comments = <<>>
    /\ has_failures = FALSE
    /\ pc = "load"
    /\ tokens = <<>>
    /\ unread = stream
    /\ todo = <<>>
    /\ last = [cursor |-> RootCursor, rules_before |-> <<>>,
               ignore_before |-> <<>>, run |-> NotEvaluated(<<>>, <<>>)]
    /\ warnings = {}
    /\ returned = None

\* RuleSet(config) and Processor(...), once RuleSet.__init__ has ended in
\* loaded: an exception ends the program
Loaded(loaded) ==
  IF IsNone(loaded.raised)
  THEN /\ pc' = "tokens"
       /\ config' = loaded.rule_set
       /\ rule_set' = loaded.rule_set
       /\ last' = [last EXCEPT !.rules_before = loaded.rule_set.rules,
                               !.run = NotEvaluated(loaded.rule_set.rules, <<>>)]
       /\ UNCHANGED raised
  ELSE /\ pc' = "raised"
       /\ raised' = loaded.raised
       /\ UNCHANGED <<config, rule_set, last>>

\* processor = Processor(RuleSet(config), args.verbose)
Load ==
  /\ pc = "load"
  /\ Loaded(RuleSetInit(Val(parser)))
  /\ UNCHANGED <<ignore_comments, has_failures, tokens, unread, todo, warnings,
                 returned, parser>>

NextLoad ==
  \/ Load
  \/ Next

SpecLoad == InitLoad /\ [][NextLoad]_vars

(***************************************************************************)
(* The properties.  They speak of the last call of _process_node: the       *)
(* declaration last.cursor, evaluated from the rules last.rules_before and  *)
(* the ignore comments last.ignore_before, with the outcome last.run.       *)
(***************************************************************************)
\* the last call printed one of the messages msgs
Logged(msgs) == \E k \in 1..Len(last.run.log) : last.run.log[k].msg \in msgs

\* the last call printed msg about the rule called name
LoggedFor(msg, name) ==
  \E k \in 1..Len(last.run.log) :
    last.run.log[k].msg = msg /\ last.run.log[k].rule = name

\* the ignore comment of the declaration's line, if any
LastIgnore == GetIgnore(last.ignore_before, last.cursor.line)

\* the kind of the declaration, when the call evaluated it
LastKind == Val(_get_config_kind(last.cursor).kind)

\* the selectors of rule match the declaration, at the next match attempt
Selects(cursor, rule) ==
  LET ck == _get_config_kind(cursor)
  IN /\ ~IsNone(ck.kind)
     /\ _rule_applies(cursor, [rule EXCEPT !.kinds = KindsAfterMatch(@)],
                      Val(ck.kind), ck.visibility, PointerLevel(cursor))

\* rule carries a body pattern
HasBody(rule) == ~IsNone(rule.rule)

\* rule carries a prefix or a suffix that is not empty
HasAffix(rule) == Truthy(rule.prefix) \/ Truthy(rule.suffix)

\* rule carries only a prefix and/or a suffix
AffixOnly(rule) == IsNone(rule.rule) /\ IsNone(rule.allow_rule) /\ HasAffix(rule)

\* rule i of the rule set applied in the last call
Applied(i) == InSeq(last.rules_before[i].name, last.run.applied)

\* the position of the rule called name
RuleIndex(name) ==
  CHOOSE i \in 1..Len(last.rules_before) : last.rules_before[i].name = name

\* the verdict of the declaration of the last call under the rules given
Verdict(rules) ==
  _process_node(last.cursor, rules, config.placeholders, last.ignore_before).passed

\* the rule set holds two rules that both select the declaration, one with a
\* body pattern and one with a prefix and/or suffix only
PairInScope ==
  /\ last.run.evaluated
  /\ Len(last.rules_before) = 2
  /\ Selects(last.cursor, last.rules_before[1])
  /\ Selects(last.cursor, last.rules_before[2])
  /\ \/ HasBody(last.rules_before[1]) /\ AffixOnly(last.rules_before[2])
     \/ AffixOnly(last.rules_before[1]) /\ HasBody(last.rules_before[2])

\* the two rules in the other order
Swapped == <<last.rules_before[2], last.rules_before[1]>>

\* C1: for a declaration with no ignore comment on its line, when the compound
\* prefix or suffix of its selector-matching rules does not match the
\* identifier (the missing prefix or suffix is printed), the verdict of
\* _process_node is fail, whatever is tested afterwards.
C1_MissingAffixFails ==
  (last.run.evaluated /\ IsNone(LastIgnore) /\ Logged({"missing"}))
    => ~last.run.passed

\* C2: an ignore comment that an earlier mismatch has marked used suppresses
\* nothing: the declaration is evaluated as if its line had no ignore comment.
C2_UsedCommentSuppressesNothing ==
  (last.run.evaluated /\ ~IsNone(LastIgnore) /\ Val(LastIgnore).used)
    => /\ ~Logged({"ignored", "ignored missing"})
       /\ last.run.passed =
            _process_node(last.cursor, last.rules_before, config.placeholders,
                          <<>>).passed

C4_SameVerdictAfterHistory ==
  last.run.evaluated
    => last.run.passed =
         _process_node(last.cursor, config.rules, config.placeholders,
                       last.ignore_before).passed

\* C5: rules are tested in declared order, and the first body rule tested is
\* the last rule tested: with no affix and no ignore comment the verdict is
\* pass iff the identifier full-matches its expanded pattern.
C5_FirstBodyRuleDecides ==
  last.run.evaluated =>
    /\ \A k \in 1..(Len(last.run.tested) - 1) :
         RuleIndex(last.run.tested[k]) < RuleIndex(last.run.tested[k + 1])
    /\ \A k \in 1..Len(last.run.tested) :
         LET rule == last.rules_before[RuleIndex(last.run.tested[k])]
             declared == SubstituteVars(last.cursor, PointerLevel(last.cursor))
             expanded ==
               _sub_placeholders(
                 Val(rule.rule), config.placeholders,
                 IF last.cursor.kind = "ENUM_CONSTANT_DECL"
                 THEN WithParent(declared, ParentName(last.cursor, rule).name)
                 ELSE declared)
         IN HasBody(rule) =>
              /\ k = Len(last.run.tested)
              /\ ( /\ IsNone(LastIgnore)
                   /\ \A i \in 1..Len(last.rules_before) :
                        Applied(i) => ~HasAffix(last.rules_before[i]) )
                   => ( last.run.passed
                          <=> ~IsNone(FullMatch(expanded, last.cursor.spelling)) )

\* a body rule failed a declaration that the rule declared after it selects
\* too, and that rule was not tested
C5_Witness ==
  /\ last.run.evaluated
  /\ Len(last.rules_before) = 2
  /\ HasBody(last.rules_before[1])
  /\ ~HasAffix(last.rules_before[1])
  /\ HasBody(last.rules_before[2])
  /\ Selects(last.cursor, last.rules_before[2])
  /\ IsNone(LastIgnore)
  /\ last.run.tested = <<last.rules_before[1].name>>
  /\ ~last.run.passed

C7_KindSelectorUsesFullExpansion ==
  last.run.evaluated =>
    \A i \in 1..last.run.visited :
      LET declared == config.rules[i].kinds
          listed == { Val(declared)[k] : k \in 1..Len(Val(declared)) }
          aliases == listed \cap DOMAIN _KIND_EXPANSION
          expanded ==
            (listed \ aliases)
              \cup UNION { { _KIND_EXPANSION[a][k] :
                               k \in 1..Len(_KIND_EXPANSION[a]) } : a \in aliases }
      IN (~IsNone(declared) /\ aliases # {})
           => ( InSeq(LastKind, Val(last.run.rules[i].kinds))
                  <=> LastKind \in expanded )

\* the pointer depth of the declaration, 0 for one the Processor computes no
\* pointer level for
LastDepth ==
  IF IsNone(PointerLevel(last.cursor)) THEN 0 ELSE Val(PointerLevel(last.cursor))

\* C8, as stated: a rule with pointer = true applies only at a pointer depth of
\* at least 1, a rule with pointer = n only at the depth n.
C8_PointerRuleNeedsDepth ==
  last.run.evaluated =>
    \A i \in 1..Len(last.rules_before) :
      Applied(i) =>
        /\ last.rules_before[i].pointer = PointerBool(TRUE) => LastDepth >= 1
        /\ last.rules_before[i].pointer.t = "int"
             => LastDepth = last.rules_before[i].pointer.n

\* C8, amended: for a declaration that has a pointer depth (a variable, a
\* parameter, a typedef, a field), a rule with pointer = true applies only at
\* a depth of at least 1 and a rule with pointer = n only at the depth n; the
\* pointer selector accepts every other declaration.
C8_PointerRuleNeedsDepthIfAny ==
  last.run.evaluated =>
    \A i \in 1..Len(last.rules_before) :
      /\ (Applied(i) /\ ~IsNone(PointerLevel(last.cursor))) =>
           /\ last.rules_before[i].pointer = PointerBool(TRUE) => LastDepth >= 1
           /\ last.rules_before[i].pointer.t = "int"
                => LastDepth = last.rules_before[i].pointer.n
      /\ ( /\ IsNone(PointerLevel(last.cursor))
           /\ i <= last.run.visited
           /\ Selects(last.cursor,
                      [last.rules_before[i] EXCEPT !.pointer = PointerNone]) )
           => Applied(i)

\* a rule with pointer = 2 applied to a declaration of depth 2
C8_Witness ==
  /\ last.run.evaluated
  /\ ~IsNone(PointerLevel(last.cursor))
  /\ \E i \in 1..Len(last.rules_before) :
       /\ last.rules_before[i].pointer = PointerInt(2)
       /\ Applied(i)
       /\ LastDepth = 2

\* token is a c-name-style ignore comment
IsIgnoreComment(token) ==
  token.kind = "COMMENT" /\ CommentValue(token.spelling) = Some("ignore")

\* the key the spec gives the comment: the following line if no token of the
\* file precedes it on its line, its own line otherwise
ExpectedKey(all_tokens, token) ==
  IF \E i \in 1..Len(all_tokens) :
       all_tokens[i].line = token.line /\ all_tokens[i].column < token.column
  THEN token.line
  ELSE token.line + 1

\* C9: an ignore comment that is the first token on its line is registered
\* under the following line, one preceded by another token under its own
\* line; so the comment that suppresses a mismatch of a declaration trails on
\* the declaration's line or starts the line above.
C9_IgnoreCommentKey ==
  /\ pc = "tokens" =>
       /\ \A i \in 1..Len(tokens) :
            IsIgnoreComment(tokens[i])
              => ExpectedKey(tokens \o unread, tokens[i]) \in DOMAIN ignore_comments
       /\ \A k \in DOMAIN ignore_comments :
            /\ IsIgnoreComment(ignore_comments[k].token)
            /\ k = ExpectedKey(tokens \o unread, ignore_comments[k].token)
  /\ (last.run.evaluated /\ Logged({"ignored", "ignored missing"})) =>
       /\ ~IsNone(LastIgnore)
       /\ \/ /\ Val(LastIgnore).token.line = last.cursor.line
             /\ Val(LastIgnore).token.column > 1
          \/ /\ Val(LastIgnore).token.line + 1 = last.cursor.line
             /\ Val(LastIgnore).token.column = 1

\* a comment alone on the line above suppressed the mismatch of a declaration
C9_Witness ==
  /\ last.run.evaluated
  /\ Logged({"ignored"})
  /\ last.run.passed
  /\ ~IsNone(LastIgnore)
  /\ Val(LastIgnore).token.line + 1 = last.cursor.line
  /\ ignore_comments[last.cursor.line].used

\* the warnings of unused ignore comments
UnusedWarnings(ws) == { w \in ws : w.msg = "ignore comment not used" }

\* C10: at the end of the walk a warning is printed for exactly the registered
\* ignore comments whose used flag is still false, a flag only a suppressed
\* mismatch of a declaration of the comment's line sets; the value process
\* returns is the failure flag of the walk, which the warnings leave alone.
C10_UnusedWarnings ==
  [][ /\ (pc = "walk" /\ pc' = "done") =>
           /\ UnusedWarnings(warnings) = {}
           /\ UnusedWarnings(warnings') =
                { [msg |-> "ignore comment not used",
                   line |-> ignore_comments[k].token.line,
                   column |-> ignore_comments[k].token.column] :
                     k \in { x \in DOMAIN ignore_comments : ~ignore_comments[x].used } }
           /\ has_failures' = has_failures
           /\ returned' = Some(~has_failures)
      /\ \A k \in DOMAIN ignore_comments :
           (k \in DOMAIN ignore_comments' /\ ignore_comments'[k].used
              /\ ~ignore_comments[k].used)
             => /\ k = last'.cursor.line
                /\ \E n \in 1..Len(last'.run.log) :
                     last'.run.log[n].msg \in {"ignored", "ignored missing"}
    ]_vars

\* process has returned: one ignore comment was used, another is warned of
C10_Witness ==
  /\ pc = "done"
  /\ \E k \in DOMAIN ignore_comments : ignore_comments[k].used
  /\ UnusedWarnings(warnings) # {}
  /\ returned = Some(TRUE)

\* the cursors below cursor that the walk goes on to: its children, but for a
\* typedef of a record or an enum
Descent(cursor) ==
  IF cursor.kind = "TYPEDEF_DECL" /\ TypeKind(cursor.underlying) \in {"RECORD", "ENUM"}
  THEN <<>>
  ELSE cursor.children

\* C11: the walk never stops early.  Each call of _process takes the next
\* cursor left (the next child of the translation unit's cursor when none is
\* left), and leaves the cursors below it (but below a typedef of a record or
\* an enum) before the ones still left, whatever failed before;
\* the failure flag is never reset, and is set exactly by a declaration of the
\* main file that evaluated to fail; process returns only when no cursor is
\* left, and returns pass iff the flag is not set.
C11_WalkNeverStopsEarly ==
  [][ /\ pc' = "walk" =>
           /\ todo # <<>> =>
                /\ last'.cursor = Head(todo)
                /\ todo' = Descent(last'.cursor) \o Tail(todo)
           /\ todo = <<>> =>
                \/ last'.cursor = RootCursor /\ todo' = <<>>
                \/ \E statement \in Statements, line \in 1..MaxLine :
                     /\ last'.cursor = Head(AtLine(statement, line))
                     /\ todo' = Descent(last'.cursor)
                                  \o Tail(AtLine(statement, line))
           /\ has_failures' = (has_failures \/ ~last'.run.passed)
           /\ ~last'.run.passed => (last'.cursor.main /\ last'.run.evaluated)
      /\ has_failures => has_failures'
      /\ (pc = "walk" /\ pc' = "done") =>
           /\ todo = <<>>
           /\ returned' = Some(~has_failures')
    ]_vars

\* a struct failed, and the walk went on to evaluate its member
C11_Witness ==
  /\ pc = "walk"
  /\ has_failures
  /\ last.run.evaluated
  /\ last.run.passed
  /\ last.cursor.kind = "FIELD_DECL"

\* typedef struct { int a; } Foo;  on a line: the struct, then the typedef
\* whose child the struct is too
UnnamedTypedef(line) == AtLine(<<UnnamedStruct, TypedefFoo>>, line)

\* C12: for typedef struct { int a; } Foo; the struct is classified as absent
\* and not evaluated, the typedef is classified struct_typedef, and the member
\* is evaluated exactly once: it is the one cursor the walk takes between the
\* struct and the typedef, and none is left after the typedef.
C12_UnnamedRecordMembersOnce ==
  [][ pc' = "walk" =>
        \A line \in 1..MaxLine :
          LET struct == UnnamedTypedef(line)[1]
              typedef == UnnamedTypedef(line)[2]
              member == struct.children[1]
          IN /\ last'.cursor = struct =>
                  /\ IsNone(_get_config_kind(struct).kind)
                  /\ ~last'.run.evaluated
                  /\ todo' = <<member, typedef>>
             /\ last'.cursor = member =>
                  /\ last.cursor = struct
                  /\ _get_config_kind(member).kind = Some("struct_member")
                  /\ last'.run.evaluated
                  /\ todo' = <<typedef>>
             /\ last'.cursor = typedef =>
                  /\ last.cursor = member
                  /\ _get_config_kind(typedef).kind = Some("struct_typedef")
                  /\ last'.run.evaluated
                  /\ todo' = <<>>
    ]_vars

\* the typedef of the unnamed struct was evaluated: no cursor is left
C12_Witness ==
  /\ pc = "walk"
  /\ \E line \in 1..MaxLine : last.cursor = UnnamedTypedef(line)[2]
  /\ last.run.evaluated
  /\ LastKind = "struct_typedef"
  /\ todo = <<>>

\* the section of end-to-end scenario 3
EnumRule == CHOOSE r \in SingleRules : r.name = "enum-rule"

\* scenario 3: an enumerator of enum Color_e is evaluated under the enum rule
\* alone, with no ignore comment on its line
Scenario3 ==
  /\ last.run.evaluated
  /\ config.rules = <<EnumRule>>
  /\ last.cursor.kind = "ENUM_CONSTANT_DECL"
  /\ last.cursor.parent.spelling = NameColorE
  /\ IsNone(LastIgnore)

\* scenario 3: the parent is captured as Color and the body pattern expands
\* to COLOR_.*
Scenario3Pattern ==
  /\ ParentName(last.cursor, EnumRule).name = <<"C","o","l","o","r">>
  /\ _sub_placeholders(
        Val(EnumRule.rule), config.placeholders,
        WithParent(SubstituteVars(last.cursor, PointerLevel(last.cursor)),
                   ParentName(last.cursor, EnumRule).name))
       = Lit(<<"C","O","L","O","R">>) \o <<Chr("_"), Star(AnyChar)>>

\* C13, as stated: in scenario 3 the parent is captured as Color, the expanded
\* body pattern is COLOR_.*, the enumerator Color_RED passes and RED fails.
C13_ColorRedPasses ==
  Scenario3 =>
    /\ Scenario3Pattern
    /\ last.cursor.spelling = NameColorRed => last.run.passed
    /\ last.cursor.spelling = NameRed => ~last.run.passed

\* C13, amended: in scenario 3 the parent is captured as Color, the expanded
\* body pattern is COLOR_.*, the enumerator COLOR_RED passes, and the
\* enumerators Color_RED and RED fail.
C13_UpperColorRedPasses ==
  Scenario3 =>
    /\ Scenario3Pattern
    /\ last.cursor.spelling = NameUpperColorRed => last.run.passed
    /\ last.cursor.spelling = NameColorRed => ~last.run.passed
    /\ last.cursor.spelling = NameRed => ~last.run.passed

\* the enumerator COLOR_RED was tested against the enum rule and passed
C13_Witness ==
  /\ Scenario3
  /\ last.cursor.spelling = NameUpperColorRed
  /\ LoggedFor("allowed", "enum-rule")
  /\ last.run.passed

\* the first section of end-to-end scenario 2
PrefixRule == CHOOSE r \in RuleCatalog : r.name = "prefix-rule"

\* scenario 2: a struct tag is evaluated under prefix-rule then body-rule,
\* with no ignore comment on its line
Scenario2 ==
  /\ last.run.evaluated
  /\ config.rules = <<PrefixRule, BodyRule>>
  /\ last.cursor.kind = "STRUCT_DECL"
  /\ IsNone(LastIgnore)

\* the body pattern of scenario 2, expanded
PascalCase ==
  _sub_placeholders(Val(BodyRule.rule), config.placeholders,
                    SubstituteVars(last.cursor, PointerLevel(last.cursor)))

\* C14: in scenario 2 the tag T_Widget passes: it has the prefix T_, and it is
\* the remainder Widget, not T_Widget, that matches the body pattern; the tag
\* Widget fails on the missing prefix, although it matches the body pattern.
C14_PrefixStrippedBeforeBody ==
  Scenario2 =>
    /\ last.run.applied = <<"prefix-rule", "body-rule">>
    /\ last.run.tested = <<"body-rule">>
    /\ last.cursor.spelling = NameTWidget =>
         /\ last.run.passed
         /\ ~Logged({"missing"})
         /\ LoggedFor("allowed", "body-rule")
         /\ IsNone(FullMatch(PascalCase, NameTWidget))
         /\ ~IsNone(FullMatch(PascalCase, NameWidget))
    /\ last.cursor.spelling = NameWidget =>
         /\ ~last.run.passed
         /\ Logged({"missing"})
         /\ ~Logged({"fails rule"})

\* struct T_Widget passed scenario 2
C14_Witness ==
  /\ Scenario2
  /\ last.cursor.spelling = NameTWidget
  /\ last.run.passed
  /\ LoggedFor("allowed", "body-rule")

\* section has none of rule, allow-rule, prefix and suffix, or both rule and
\* allow-rule, or a pointer that is neither an integer nor a boolean token
Offending(section) ==
  /\ section.name # "placeholders"
  /\ \/ {"rule", "allow-rule", "prefix", "suffix"} \cap DOMAIN section.options = {}
     \/ {"rule", "allow-rule"} \subseteq DOMAIN section.options
     \/ /\ "pointer" \in DOMAIN section.options
        /\ IsNone(ParseInt(section.options["pointer"]))
        /\ IsNone(ParseBoolean(section.options["pointer"]))

\* C15: once the configuration is loaded: if it has an offending section, an
\* error that names an offending section was raised, no RuleSet was built and
\* nothing is read or walked; otherwise no error was raised and the RuleSet
\* has one rule for each section other than [placeholders], in file order.
C15_LoadFailsNamingSection ==
  (pc # "load" /\ ~IsNone(parser)) =>
    LET sections == Val(parser)
        offending == { i \in 1..Len(sections) : Offending(sections[i]) }
        named == SelectSeq(sections, LAMBDA x : x.name # "placeholders")
    IN /\ offending # {} =>
            /\ pc = "raised"
            /\ ~IsNone(raised)
            /\ \E i \in offending : Val(raised).section = Some(sections[i].name)
            /\ config = EmptyRuleSet
            /\ rule_set = EmptyRuleSet
            /\ last.cursor = RootCursor
            /\ tokens = <<>>
            /\ returned = None
       /\ offending = {} =>
            /\ pc # "raised"
            /\ IsNone(raised)
            /\ Len(config.rules) = Len(named)
            /\ \A i \in 1..Len(named) : config.rules[i].name = named[i].name

\* the messages that end the test of a rule
Outcomes == {"ignored", "fails rule", "fails allow-rule", "allowed"}

\* entry k of the log of the last call ends the test of a rule during which
\* an accumulated prefix or suffix was found missing
AffixMissedBefore(k) ==
  \E j \in 1..(k - 1) :
    /\ last.run.log[j].msg \in {"missing", "ignored missing"}
    /\ \A m \in (j + 1)..(k - 1) : last.run.log[m].msg \notin Outcomes

\* C16: when the pattern of a tested allow-rule matches the identifier, its
\* accumulated prefix and suffix having matched, the test is the last of the
\* declaration and the declaration passes: no later rule is tested.
C16_MatchingAllowRuleConcludes ==
  last.run.evaluated =>
    \A k \in 1..Len(last.run.log) :
      LET rule == last.rules_before[RuleIndex(last.run.log[k].rule)]
      IN ( /\ last.run.log[k].msg = "allowed"
           /\ ~HasBody(rule)
           /\ ~AffixMissedBefore(k) )
           => /\ k = Len(last.run.log)
              /\ last.run.tested[Len(last.run.tested)] = rule.name
              /\ \A j \in (RuleIndex(rule.name) + 1)..Len(last.rules_before) :
                   ~InSeq(last.rules_before[j].name, last.run.tested)
              /\ last.run.passed

\* an allow-rule matched and passed a declaration that the body rule declared
\* after it selects and, alone, fails
C16_Witness ==
  /\ last.run.evaluated
  /\ Len(last.rules_before) = 2
  /\ ~HasBody(last.rules_before[1])
  /\ LoggedFor("allowed", last.rules_before[1].name)
  /\ HasBody(last.rules_before[2])
  /\ Selects(last.cursor, last.rules_before[2])
  /\ ~Verdict(<<last.rules_before[2]>>)
  /\ last.run.tested = <<last.rules_before[1].name>>
  /\ last.run.passed

\* the entry that ends the test that entry j of the log belongs to
OutcomeOf(j) ==
  CHOOSE m \in j..Len(last.run.log) :
    /\ last.run.log[m].msg \in Outcomes
    /\ \A n \in j..(m - 1) : last.run.log[n].msg \notin Outcomes

\* during the test of the rule called name the accumulated prefix (term =
\* "prefix") or suffix was found missing
MissingIn(name, term) ==
  \E j \in 1..Len(last.run.log) :
    /\ last.run.log[j].msg \in {"missing", "ignored missing"}
    /\ last.run.log[j].term = term
    /\ last.run.log[OutcomeOf(j)].rule = name

\* C17: a selector-matching rule whose prefix (suffix) is the empty string is
\* not added to the accumulated prefix (suffix) rules; when it is tested the
\* accumulated prefix (suffix) is not looked for, so it is never found missing,
\* and it is not stripped: with no ignore comment, a body rule that opts out of
\* the prefix, no suffix being accumulated (or of the suffix, no prefix being
\* accumulated, or of both), passes the declaration iff its expanded pattern
\* full-matches the whole identifier.
C17_EmptyAffixOptsOut ==
  last.run.evaluated =>
    \A i \in 1..Len(last.rules_before) :
      LET rule == last.rules_before[i]
          expanded ==
            _sub_placeholders(Val(rule.rule), config.placeholders,
                              SubstituteVars(last.cursor, PointerLevel(last.cursor)))
      IN Applied(i) =>
           /\ rule.prefix = Some(<<>>) =>
                /\ ~InSeq(rule.name, last.run.prefix_rules)
                /\ ~MissingIn(rule.name, "prefix")
           /\ rule.suffix = Some(<<>>) =>
                /\ ~InSeq(rule.name, last.run.suffix_rules)
                /\ ~MissingIn(rule.name, "suffix")
           /\ ( /\ rule.prefix = Some(<<>>) \/ rule.suffix = Some(<<>>)
                /\ rule.prefix = Some(<<>>) \/ last.run.prefix_rules = <<>>
                /\ rule.suffix = Some(<<>>) \/ last.run.suffix_rules = <<>>
                /\ HasBody(rule)
                /\ InSeq(rule.name, last.run.tested)
                /\ last.cursor.kind # "ENUM_CONSTANT_DECL"
                /\ IsNone(LastIgnore) )
                => ( last.run.passed
                       <=> ~IsNone(FullMatch(expanded, last.cursor.spelling)) )

\* a rule with the empty suffix passed a declaration that lacks the suffix
\* accumulated from the rule before it
C17_Witness ==
  /\ last.run.evaluated
  /\ Len(last.rules_before) = 2
  /\ last.run.suffix_rules = <<last.rules_before[1].name>>
  /\ last.rules_before[2].suffix = Some(<<>>)
  /\ last.run.tested = <<last.rules_before[2].name>>
  /\ IsNone(LastIgnore)
  /\ ~Verdict(<<last.rules_before[1],
                [last.rules_before[2] EXCEPT !.suffix = None]>>)
  /\ last.run.passed

\* when rule i was tested, some rule had been added to the prefix rules
\* (is_prefix) or to the suffix rules, and rule i does not opt out of them: the
\* compound prefix or suffix was expanded
AffixExpanded(i, is_prefix) ==
  /\ Affix(last.rules_before[i], is_prefix) # Some(<<>>)
  /\ \E j \in 1..i : Applied(j) /\ Truthy(Affix(last.rules_before[j], is_prefix))

\* C18: for an enum constant and every rule tested against it, the parent and
\* parent:upper-snake placeholders that the body pattern is expanded with are
\* the name of the enum as the parent_match of that rule rewrites it, and the
\* compound prefix or suffix, when one is expanded during the test, is
\* expanded with the same values.
C18_ParentSameForAffixAndBody ==
  (last.run.evaluated /\ last.cursor.kind = "ENUM_CONSTANT_DECL") =>
    \A k \in 1..Len(last.run.parents) :
      LET i == RuleIndex(last.run.parents[k].rule)
          parent == ParentName(last.cursor, last.rules_before[i]).name
      IN /\ last.run.parents[k].body =
              Some([parent |-> Lit(parent), upper_snake |-> Lit(UpperSnake(parent))])
         /\ (AffixExpanded(i, TRUE) \/ AffixExpanded(i, FALSE))
              => last.run.parents[k].affix = last.run.parents[k].body

\* the ignore comment token is registered: it is the comment of some key
Registered(token) ==
  \E k \in DOMAIN ignore_comments : ignore_comments[k].token = token

\* C19: every ignore comment of the token stream is accounted for at the end
\* of process.  Only a registered comment can suppress a mismatch or be
\* warned of, so: once the tokens are read every ignore comment among them is
\* registered, also when two of them resolve to the same key; and when
\* process has returned every registered comment was used or is reported
\* by an 'ignore comment not used' warning.
C19_EveryIgnoreCommentAccounted ==
  /\ (pc = "tokens" /\ unread = <<>>) =>
       \A i \in 1..Len(tokens) : IsIgnoreComment(tokens[i]) => Registered(tokens[i])
  /\ pc = "done" =>
       \A k \in DOMAIN ignore_comments :
         \/ ignore_comments[k].used
         \/ [msg |-> "ignore comment not used",
             line |-> ignore_comments[k].token.line,
             column |-> ignore_comments[k].token.column] \in warnings
=============================================================================
